---- MODULE Spec2Model ----
(***************************************************************************)
(* CORS support of cornice: the origin validator, the preflight view and   *)
(* the response filter of cornice/cors.py, the legacy OPTIONS view of      *)
(* cornice/pyramidhook.py, and the request pipeline that runs them.        *)
(*                                                                         *)
(* Strings that the code splits, joins, formats or glob-matches are        *)
(* sequences of one-character strings; dictionary keys (header names of    *)
(* the protocol, error locations) are atomic strings.                      *)
(***************************************************************************)
EXTENDS Integers, Sequences, FiniteSets, TLC

(***************************************************************************)
(* Bounds of the model.                                                    *)
(***************************************************************************)
\* how many times the CORS filter may appear in a view's filter list
MaxFilters == 2
\* how many requests are in flight together in SpecConc
NumConcurrent == 2

(***************************************************************************)
(* Python values.                                                          *)
(***************************************************************************)
\* Python's None: a tuple that is no string (its element is not a character)
None == <<"None">>

\* truth value of a header value: None and '' are false
Truthy(v) == v # None /\ v # <<>>

\* dict.get(key, default) on a header mapping
HeadersGet(h, key, default) == IF key \in DOMAIN h THEN h[key] ELSE default

\* h[key] = value on a header mapping
HeadersSet(h, key, value) ==
    [k \in DOMAIN h \cup {key} |-> IF k = key THEN value ELSE h[k]]

Whitespace == {" ", "\t"}

\* str.split() without argument: the maximal runs of non-whitespace
RECURSIVE SplitFrom(_, _, _)
SplitFrom(s, i, word) ==
    IF i > Len(s)
    THEN IF word = <<>> THEN <<>> ELSE <<word>>
    ELSE IF s[i] \in Whitespace
         THEN IF word = <<>>
              THEN SplitFrom(s, i + 1, <<>>)
              ELSE <<word>> \o SplitFrom(s, i + 1, <<>>)
         ELSE SplitFrom(s, i + 1, Append(word, s[i]))

Split(s) == SplitFrom(s, 1, <<>>)

\* sep.join(items)
RECURSIVE Join(_, _)
Join(items, sep) ==
    IF items = <<>> THEN <<>>
    ELSE IF Len(items) = 1 THEN items[1]
    ELSE items[1] \o sep \o Join(Tail(items), sep)

Digits == <<"0", "1", "2", "3", "4", "5", "6", "7", "8", "9">>

\* str(n) of a non-negative integer
RECURSIVE Str(_)
Str(n) == IF n < 10 THEN <<Digits[n + 1]>>
          ELSE Str(n \div 10) \o <<Digits[(n % 10) + 1]>>

(***************************************************************************)
(* fnmatch.fnmatchcase(name, pat): shell-style matching of the whole name, *)
(* case-sensitive; '*', '?', '[seq]', '[!seq]' with ranges.                *)
(***************************************************************************)
\* the characters of the model in ASCII order
Ascii == <<"\t", " ", "!", "*", "-", ".", "?",
           "A", "B", "X", "[", "]", "a", "b", "k", "m", "n", "x", "z">>

Ord(c) == CHOOSE i \in 1..Len(Ascii) : Ascii[i] = c

\* the index of the ']' that closes a class opened just before rest, 0 if none
RECURSIVE ScanClose(_, _)
ScanClose(rest, j) ==
    IF j > Len(rest) THEN 0
    ELSE IF rest[j] = "]" THEN j
    ELSE ScanClose(rest, j + 1)

ClassEnd(rest) ==
    LET j1 == IF Len(rest) >= 1 /\ rest[1] = "!" THEN 2 ELSE 1
        j2 == IF Len(rest) >= j1 /\ rest[j1] = "]" THEN j1 + 1 ELSE j1
    IN  ScanClose(rest, j2)

\* membership of c in the items of a character class
RECURSIVE InClass(_, _)
InClass(stuff, c) ==
    IF stuff = <<>> THEN FALSE
    ELSE IF Len(stuff) >= 3 /\ stuff[2] = "-"
         THEN \/ (Ord(stuff[1]) <= Ord(c) /\ Ord(c) <= Ord(stuff[3]))
              \/ InClass(SubSeq(stuff, 4, Len(stuff)), c)
         ELSE stuff[1] = c \/ InClass(Tail(stuff), c)

RECURSIVE fnmatchcase(_, _)
fnmatchcase(name, pat) ==
    IF pat = <<>> THEN name = <<>>
    ELSE LET c == pat[1]
             rest == Tail(pat)
         IN CASE c = "*" ->
                   \/ fnmatchcase(name, rest)
                   \/ name # <<>> /\ fnmatchcase(Tail(name), pat)
              [] c = "?" ->
                   name # <<>> /\ fnmatchcase(Tail(name), rest)
              [] c = "[" ->
                   LET j == ClassEnd(rest)
                   IN IF j = 0
                      THEN /\ name # <<>>
                           /\ name[1] = "["
                           /\ fnmatchcase(Tail(name), rest)
                      ELSE LET stuff == SubSeq(rest, 1, j - 1)
                               negated == stuff[1] = "!"
                               items == IF negated THEN Tail(stuff) ELSE stuff
                           IN /\ name # <<>>
                              /\ InClass(items, name[1]) # negated
                              /\ fnmatchcase(Tail(name),
                                             SubSeq(rest, j + 1, Len(rest)))
              [] OTHER ->
                   /\ name # <<>>
                   /\ name[1] = c
                   /\ fnmatchcase(Tail(name), rest)

\* os.path.normcase: the identity on POSIX, lower case on Windows
Lower(c) == CASE c = "A" -> "a" [] c = "B" -> "b" [] c = "X" -> "x" [] OTHER -> c

normcase(s, windows) == IF windows THEN [i \in 1..Len(s) |-> Lower(s[i])] ELSE s

\* fnmatch.fnmatch(name, pat): both arguments through normcase first
fnmatch(name, pat, windows) ==
    fnmatchcase(normcase(name, windows), normcase(pat, windows))

(***************************************************************************)
(* The service: the CORS policy of one endpoint.  A service is a record    *)
(*   methods      the declared methods, in definition order                *)
(*   enabled      the declared methods whose CORS support is on            *)
(*   origins      method -> sequence of origin patterns                    *)
(*   headers      method -> sequence of header names                       *)
(*   credentials  method -> BOOLEAN                                        *)
(*   max_age      method -> <<>> (None) or <<seconds>>                     *)
(*   strict       whether the origin lookup of an undeclared method fails  *)
(***************************************************************************)
Range(f) == {f[i] : i \in DOMAIN f}

Declared(service, method) == method \in Range(service.methods)

\* the elements of seq that are not in seen, each once, in order
RECURSIVE Fresh(_, _)
Fresh(seq, seen) ==
    IF seq = <<>> THEN <<>>
    ELSE IF seq[1] \in seen THEN Fresh(Tail(seq), seen)
    ELSE <<seq[1]>> \o Fresh(Tail(seq), seen \cup {seq[1]})

\* the concatenation of field[m] over the methods ms, in order
RECURSIVE Gather(_, _)
Gather(field, ms) ==
    IF ms = <<>> THEN <<>> ELSE field[ms[1]] \o Gather(field, Tail(ms))

cors_supported_methods(service) ==
    LET Enabled(m) == m \in service.enabled
    IN  Fresh(SelectSeq(service.methods, Enabled), {})

cors_supported_headers(service) ==
    Fresh(Gather(service.headers, cors_supported_methods(service)), {})

\* every origin pattern of the service, whatever the method
cors_supported_origins(service) ==
    Fresh(Gather(service.origins, service.methods), {})

\* originsFor(method): fails with UnknownMethod or gives the empty sequence
\* for an undeclared method, per configuration
cors_origins_for(service, method) ==
    IF Declared(service, method)
    THEN [raised |-> FALSE, value |-> service.origins[method]]
    ELSE [raised |-> service.strict, value |-> <<>>]

cors_support_credentials(service, method) ==
    IF Declared(service, method) THEN service.credentials[method] ELSE FALSE

cors_max_age_for(service, method) ==
    IF Declared(service, method) THEN service.max_age[method] ELSE <<>>

(***************************************************************************)
(* The error sink of a request: request.errors.add(location, name, desc).  *)
(* A description is the sequence of its parts, a formatted argument being  *)
(* one part.                                                               *)
(***************************************************************************)
errors_add(errors, location, name, description) ==
    Append(errors, [location |-> location, name |-> name,
                    description |-> description])

Mandatory == <<"this header is mandatory">>
MethodNotAllowedMsg == <<"Method not allowed">>
HeaderNotAllowedMsg(h) == <<"Header \"", h, "\" not allowed">>
OriginNotAllowedMsg(origin) == <<origin, " not allowed">>

GET == <<"G", "E", "T">>
PUT == <<"P", "U", "T">>
POST == <<"P", "O", "S", "T">>
DELETE == <<"D", "E", "L", "E", "T", "E">>
OPTIONS == <<"O", "P", "T", "I", "O", "N", "S">>

\* the value 'ok' a preflight view returns
Ok == <<"o", "k">>
\* the value 'true' of Access-Control-Allow-Credentials
True == <<"t", "r", "u", "e">>

(***************************************************************************)
(* cornice/cors.py.  A request is a record                                 *)
(*   method            the HTTP verb                                       *)
(*   headers           the request headers that are present                *)
(*   method_interned   whether the verb is the very string object of the   *)
(*                     literal 'OPTIONS' (decides "is not 'OPTIONS'")      *)
(*   app_credentials   the Access-Control-Allow-Credentials value the      *)
(*                     endpoint's own view sets, None if it sets none      *)
(***************************************************************************)
\* CheckRequestedHeaders stopping at the first header that is not supported
RECURSIVE CheckRequestedHeaders_first_only(_, _, _, _)
CheckRequestedHeaders_first_only(requested_headers, supported_headers, errors, location) ==
    IF requested_headers = <<>> THEN errors
    ELSE LET h == requested_headers[1]
         IN IF h \notin Range(supported_headers)
            THEN errors_add(errors, location, "Access-Control-Request-Headers",
                            HeaderNotAllowedMsg(h))
            ELSE CheckRequestedHeaders_first_only(
                     Tail(requested_headers), supported_headers, errors,
                     location)

\* one "Header ... not allowed" error per requested header not supported
RECURSIVE CheckRequestedHeaders(_, _, _, _)
CheckRequestedHeaders(requested_headers, supported_headers, errors, location) ==
    IF requested_headers = <<>> THEN errors
    ELSE LET h == requested_headers[1]
         IN CheckRequestedHeaders(
                Tail(requested_headers), supported_headers,
                IF h \notin Range(supported_headers)
                THEN errors_add(errors, location,
                                "Access-Control-Request-Headers",
                                HeaderNotAllowedMsg(h))
                ELSE errors,
                location)

\* CheckMandatoryHeaders stopping at the first missing header
CheckMandatoryHeaders_first_only(origin, requested_method, errors, location) ==
    IF ~Truthy(origin)
    THEN errors_add(errors, location, "Origin", Mandatory)
    ELSE IF ~Truthy(requested_method)
    THEN errors_add(errors, location, "Access-Control-Request-Method", Mandatory)
    ELSE errors

\* the two mandatory headers of a preflight request: one error for each that
\* is missing or empty
CheckMandatoryHeaders(origin, requested_method, errors, location) ==
    LET e1 == IF ~Truthy(origin)
              THEN errors_add(errors, location, "Origin", Mandatory)
              ELSE errors
    IN IF ~Truthy(requested_method)
       THEN errors_add(e1, location, "Access-Control-Request-Method", Mandatory)
       ELSE e1

\* the method check: one error if the requested method is not supported
CheckRequestedMethod(service, requested_method, errors, location) ==
    IF requested_method \notin Range(cors_supported_methods(service))
    THEN errors_add(errors, location, "Access-Control-Request-Method",
                    MethodNotAllowedMsg)
    ELSE errors

\* PreflightResponseHeaders advertising every declared method
PreflightResponseHeaders_all_methods(service, response_headers) ==
    HeadersSet(
        HeadersSet(response_headers, "Access-Control-Allow-Headers",
                   Join(cors_supported_headers(service), <<",", " ">>)),
        "Access-Control-Allow-Methods",
        Join(service.methods, <<",">>))

\* the Allow-Headers and Allow-Methods headers of the preflight response
PreflightResponseHeaders(service, response_headers) ==
    HeadersSet(
        HeadersSet(response_headers, "Access-Control-Allow-Headers",
                   Join(cors_supported_headers(service), <<",", " ">>)),
        "Access-Control-Allow-Methods",
        Join(cors_supported_methods(service), <<",">>))

\* _preflight_view(request): the errors and response headers after the view,
\* and the value it returns
_preflight_view(service, request, errors, response_headers) ==
    LET origin == HeadersGet(request.headers, "Origin", None)
        supported_headers == cors_supported_headers(service)
        requested_method ==
            HeadersGet(request.headers, "Access-Control-Request-Method", None)
        e2 == CheckMandatoryHeaders(origin, requested_method, errors, "header")
    IN IF ~(Truthy(requested_method) /\ Truthy(origin))
       THEN [errors |-> e2, headers |-> response_headers, ret |-> None]
       ELSE
       LET raw == HeadersGet(request.headers,
                             "Access-Control-Request-Headers", <<>>)
           requested_headers == IF Truthy(raw) THEN Split(raw) ELSE <<>>
           e3 == CheckRequestedMethod(service, requested_method, e2, "header")
           e4 == CheckRequestedHeaders(requested_headers, supported_headers,
                                       e3, "header")
           h2 == PreflightResponseHeaders(service, response_headers)
           max_age == cors_max_age_for(service, requested_method)
           h3 == IF max_age # <<>>
                 THEN HeadersSet(h2, "Access-Control-Max-Age", Str(max_age[1]))
                 ELSE h2
       IN [errors |-> e4, headers |-> h3, ret |-> Ok]

\* _get_method(request): the method CORS operations are about
_get_method(request) ==
    IF request.method = OPTIONS
    THEN HeadersGet(request.headers, "Access-Control-Request-Method",
                    request.method)
    ELSE request.method

\* OriginAllowed with all() in place of any()
OriginAllowed_all(origin, patterns) ==
    \A i \in DOMAIN patterns : fnmatchcase(origin, patterns[i])

\* any([fnmatch.fnmatchcase(origin, o) for o in patterns])
OriginAllowed(origin, patterns) ==
    \E i \in DOMAIN patterns : fnmatchcase(origin, patterns[i])

\* _cors_validator answering an allowed origin with the wildcard
_cors_validator_wildcard(service, request, errors, response_headers) ==
    LET method == _get_method(request)
        origin == HeadersGet(request.headers, "Origin", None)
        found == cors_origins_for(service, method)
    IN IF ~Truthy(origin)
       THEN [errors |-> errors, headers |-> response_headers, raised |-> FALSE]
       ELSE IF found.raised
       THEN [errors |-> errors, headers |-> response_headers, raised |-> TRUE]
       ELSE IF ~OriginAllowed(origin, found.value)
       THEN [errors |-> errors_add(errors, "header", "Origin",
                                   OriginNotAllowedMsg(origin)),
             headers |-> response_headers, raised |-> FALSE]
       ELSE [errors |-> errors,
             headers |-> HeadersSet(response_headers,
                                    "Access-Control-Allow-Origin", <<"*">>),
             raised |-> FALSE]

\* _cors_validator(request): the errors and response headers after the
\* validator, and whether the origin lookup raised
_cors_validator(service, request, errors, response_headers) ==
    LET method == _get_method(request)
        origin == HeadersGet(request.headers, "Origin", None)
        found == cors_origins_for(service, method)
    IN IF ~Truthy(origin)
       THEN [errors |-> errors, headers |-> response_headers, raised |-> FALSE]
       ELSE IF found.raised
       THEN [errors |-> errors, headers |-> response_headers, raised |-> TRUE]
       ELSE IF ~OriginAllowed(origin, found.value)
       THEN [errors |-> errors_add(errors, "header", "Origin",
                                   OriginNotAllowedMsg(origin)),
             headers |-> response_headers, raised |-> FALSE]
       ELSE [errors |-> errors,
             headers |-> HeadersSet(response_headers,
                                    "Access-Control-Allow-Origin", origin),
             raised |-> FALSE]

\* request.method is not 'OPTIONS': a comparison of object identity, true of
\* every other verb, and of the verb OPTIONS unless it is the literal's object
IsNotOptions(request) == ~(request.method = OPTIONS /\ request.method_interned)

\* _cors_filter without the check that the credentials header is absent
_cors_filter_overwrite(service, response_headers, request) ==
    LET method == _get_method(request)
        h1 == IF cors_support_credentials(service, method)
              THEN HeadersSet(response_headers,
                              "Access-Control-Allow-Credentials", True)
              ELSE response_headers
        supported_headers == cors_supported_headers(service)
    IN IF IsNotOptions(request) /\ supported_headers # <<>>
       THEN HeadersSet(h1, "Access-Control-Expose-Headers",
                       Join(supported_headers, <<",", " ">>))
       ELSE h1

\* _cors_filter(response, request): the response headers after the filter
_cors_filter(service, response_headers, request) ==
    LET method == _get_method(request)
        h1 == IF /\ cors_support_credentials(service, method)
                 /\ "Access-Control-Allow-Credentials" \notin DOMAIN response_headers
              THEN HeadersSet(response_headers,
                              "Access-Control-Allow-Credentials", True)
              ELSE response_headers
        supported_headers == cors_supported_headers(service)
    IN IF IsNotOptions(request) /\ supported_headers # <<>>
       THEN HeadersSet(h1, "Access-Control-Expose-Headers",
                       Join(supported_headers, <<",", " ">>))
       ELSE h1

(***************************************************************************)
(* cornice/pyramidhook.py: the OPTIONS view that register_service_views    *)
(* registers.  It checks the origin itself, against every origin pattern   *)
(* of the service, with fnmatch.fnmatch.                                   *)
(***************************************************************************)
_options_view(service, request, errors, response_headers, windows) ==
    LET origin == HeadersGet(request.headers, "Origin", None)
        requested_method ==
            HeadersGet(request.headers, "Access-Control-Request-Method", None)
        e2 == CheckMandatoryHeaders(origin, requested_method, errors, "headers")
    IN IF ~(Truthy(requested_method) /\ Truthy(origin))
       THEN [errors |-> e2, headers |-> response_headers, ret |-> None]
       ELSE
       LET raw == HeadersGet(request.headers,
                             "Access-Control-Request-Headers", <<>>)
           requested_headers == IF Truthy(raw) THEN Split(raw) ELSE <<>>
           origins == cors_supported_origins(service)
           allowed == \E i \in DOMAIN origins : fnmatch(origin, origins[i], windows)
           e3 == IF ~allowed
                 THEN errors_add(e2, "headers", "Origin",
                                 OriginNotAllowedMsg(origin))
                 ELSE e2
           h1 == IF allowed
                 THEN HeadersSet(response_headers,
                                 "Access-Control-Allow-Origin", origin)
                 ELSE response_headers
           e4 == CheckRequestedMethod(service, requested_method, e3, "headers")
           supported_headers == cors_supported_headers(service)
           e5 == CheckRequestedHeaders(requested_headers, supported_headers,
                                       e4, "headers")
           h2 == HeadersSet(h1, "Access-Control-Allow-Methods",
                            Join(cors_supported_methods(service), <<",">>))
           h3 == HeadersSet(h2, "Access-Control-Allow-Headers",
                            Join(cors_supported_headers(service), <<",">>))
       IN [errors |-> e5, headers |-> h3, ret |-> Ok]

(***************************************************************************)
(* The services and requests the model runs.  Short names stand for the    *)
(* ones of the tests: "a.x" for notmyidea.org, "b.x" for the service-wide  *)
(* origin, "Xm" for X-My-Header, "Xn" for X-Another-Header.                *)
(***************************************************************************)
a_x == <<"a", ".", "x">>
b_x == <<"b", ".", "x">>
A_x == <<"A", ".", "x">>
Xm == <<"X", "m">>
Xn == <<"X", "n">>
Xk == <<"X", "k">>

\* the squirel service of the tests: POST has its CORS support switched off
Squirel ==
    [enabled     |-> {GET, PUT, OPTIONS},
     origins     |-> (GET :> <<a_x>>) @@ (POST :> << <<"x">> >>)
                     @@ (PUT :> <<b_x>>) @@ (OPTIONS :> <<b_x>>),
     headers     |-> (GET :> <<>>) @@ (POST :> <<Xn>>)
                     @@ (PUT :> <<Xm>>) @@ (OPTIONS :> <<>>),
     credentials |-> (GET :> TRUE) @@ (POST :> FALSE)
                     @@ (PUT :> FALSE) @@ (OPTIONS :> FALSE),
     max_age     |-> (GET :> <<3600>>) @@ (POST :> <<>>)
                     @@ (PUT :> <<>>) @@ (OPTIONS :> <<>>)]

\* glob patterns, several headers, a max-age of 0
Globs ==
    [enabled     |-> {GET, PUT, OPTIONS},
     origins     |-> (GET :> << <<"x">>, <<"*", ".", "x">> >>) @@ (POST :> <<>>)
                     @@ (PUT :> << <<"[", "!", "a", "]", ".", "x">> >>)
                     @@ (OPTIONS :> << <<"?", ".", "x">> >>),
     headers     |-> (GET :> <<Xm, Xk>>) @@ (POST :> <<Xn>>)
                     @@ (PUT :> <<Xk>>) @@ (OPTIONS :> <<>>),
     credentials |-> (GET :> FALSE) @@ (POST :> FALSE)
                     @@ (PUT :> TRUE) @@ (OPTIONS :> TRUE),
     max_age     |-> (GET :> <<>>) @@ (POST :> <<>>)
                     @@ (PUT :> <<0>>) @@ (OPTIONS :> <<60>>)]

\* no header declared, GET open to no origin, PUT open to every origin
Bare ==
    [enabled     |-> {GET, PUT, OPTIONS},
     origins     |-> (GET :> <<>>) @@ (POST :> <<a_x>>)
                     @@ (PUT :> << <<"*">> >>) @@ (OPTIONS :> <<>>),
     headers     |-> (GET :> <<>>) @@ (POST :> <<>>)
                     @@ (PUT :> <<>>) @@ (OPTIONS :> <<>>),
     credentials |-> (GET :> FALSE) @@ (POST :> TRUE)
                     @@ (PUT :> FALSE) @@ (OPTIONS :> FALSE),
     max_age     |-> (GET :> <<>>) @@ (POST :> <<>>)
                     @@ (PUT :> <<>>) @@ (OPTIONS :> <<>>)]

\* a service of the given profile, with or without a declared OPTIONS method
Service(profile, declare_options, strict) ==
    LET methods == IF declare_options THEN <<GET, POST, PUT, OPTIONS>>
                   ELSE <<GET, POST, PUT>>
        Restrict(f) == [m \in Range(methods) |-> f[m]]
    IN [methods     |-> methods,
        enabled     |-> profile.enabled \cap Range(methods),
        origins     |-> Restrict(profile.origins),
        headers     |-> Restrict(profile.headers),
        credentials |-> Restrict(profile.credentials),
        max_age     |-> Restrict(profile.max_age),
        strict      |-> strict]

Services ==
    {Service(p, o, s) : p \in {Squirel, Globs, Bare}, o \in BOOLEAN, s \in BOOLEAN}

ConcServices == {Service(Squirel, o, s) : o \in BOOLEAN, s \in BOOLEAN}

\* the request headers that are present: None stands for "not sent"
RequestHeaders(origin, requested_method, requested_headers) ==
    LET Sent(k) == CASE k = "Origin" -> origin
                     [] k = "Access-Control-Request-Method" -> requested_method
                     [] k = "Access-Control-Request-Headers" -> requested_headers
    IN [k \in {k \in {"Origin", "Access-Control-Request-Method",
                      "Access-Control-Request-Headers"} : Sent(k) # None}
        |-> Sent(k)]

OriginValues == {None, <<>>, a_x, b_x, <<"x">>, A_x}
RequestMethodValues == {None, <<>>, GET, PUT, POST, DELETE}
RequestHeadersValues ==
    {None, <<>>, <<" ">>, Xm, Xm \o <<" ">> \o <<"x", "m">>,
     <<"X", "z", "\t", " ">> \o Xn \o <<" ", "X", "z">>}

\* the requests the router hands to the views of a service: a declared verb,
\* or OPTIONS, which the CORS support registers
Requests(service) ==
    {[method |-> m, headers |-> RequestHeaders(o, rm, None),
      method_interned |-> FALSE, app_credentials |-> c] :
        m \in Range(service.methods) \ {OPTIONS}, o \in OriginValues,
        rm \in RequestMethodValues, c \in {None, <<"f", "a", "l", "s", "e">>}}
    \cup
    {[method |-> OPTIONS, headers |-> RequestHeaders(o, rm, rh),
      method_interned |-> i, app_credentials |-> None] :
        o \in OriginValues, rm \in RequestMethodValues,
        rh \in RequestHeadersValues, i \in BOOLEAN}

\* the requests of the concurrent runs
ConcRequests ==
    {[method |-> GET, headers |-> RequestHeaders(o, None, None),
      method_interned |-> FALSE, app_credentials |-> None] : o \in {a_x, b_x}}
    \cup
    {[method |-> OPTIONS, headers |-> RequestHeaders(o, rm, rh),
      method_interned |-> FALSE, app_credentials |-> None] :
        o \in {None, a_x}, rm \in {None, GET, DELETE},
        rh \in {Xm \o <<" ">> \o <<"x", "m">>}}

(***************************************************************************)
(* State.                                                                  *)
(***************************************************************************)
VARIABLES
    service,              \* the policy of the endpoint
    skip_view_on_errors,  \* whether a view is skipped once errors are recorded
    filters,              \* how many times the CORS filter is in the filter list
    windows,              \* whether os.path.normcase lowers case
    request,              \* request id -> request
    pc,                   \* request id -> stage of its processing
    errors,               \* request id -> request.errors
    response,             \* request id -> request.response.headers
    ret,                  \* request id -> value the OPTIONS view returned
    ran,                  \* request id -> the hooks that ran on it
    applied               \* request id -> applications of the CORS filter

vars == <<service, skip_view_on_errors, filters, windows, request, pc, errors,
          response, ret, ran, applied>>

config == <<service, skip_view_on_errors, filters, windows, request>>

Terminal == {"done", "error", "raised"}

\* the stage after the validators: the view, unless the validator raised or
\* the errors recorded so far make the wrapper answer at once
AfterValidators(raised, errs, skip) ==
    IF raised THEN "raised"
    ELSE IF skip /\ errs # <<>> THEN "error"
    ELSE "view"

\* the stage after the view
AfterView(errs, skip) == IF skip /\ errs # <<>> THEN "error" ELSE "filters"

\* the stage after one application of the filter
AfterFilter(count, total) == IF count >= total THEN "done" ELSE "filters"

InitRequests(n, services, concurrent, hook) ==
    /\ service \in services
    /\ skip_view_on_errors \in BOOLEAN
    /\ filters \in 1..MaxFilters
    /\ request \in [1..n -> IF concurrent THEN ConcRequests
                              ELSE Requests(service)]
    /\ pc = [r \in 1..n |-> IF hook /\ request[r].method = OPTIONS
                            THEN "view" ELSE "validators"]
    /\ errors = [r \in 1..n |-> <<>>]
    /\ response = [r \in 1..n |-> <<>>]
    /\ ret = [r \in 1..n |-> None]
    /\ ran = [r \in 1..n |-> {}]
    /\ applied = [r \in 1..n |-> 0]

(***************************************************************************)
(* The steps of the processing of request r.                               *)
(***************************************************************************)
\* the CORS validator runs, before the view
CorsValidator(r) ==
    /\ pc[r] = "validators"
    /\ LET out == _cors_validator(service, request[r], errors[r], response[r])
       IN /\ errors' = [errors EXCEPT ![r] = out.errors]
          /\ response' = [response EXCEPT ![r] = out.headers]
          /\ pc' = [pc EXCEPT ![r] = AfterValidators(out.raised, out.errors,
                                                     skip_view_on_errors)]
    /\ ran' = [ran EXCEPT ![r] = @ \cup {"validator"}]
    /\ UNCHANGED <<config, ret, applied>>

\* PreflightView with one error sink shared by all the requests
PreflightView_shared_errors(r) ==
    /\ pc[r] = "view"
    /\ request[r].method = OPTIONS
    /\ LET out == _preflight_view(service, request[r], <<>>, response[r])
       IN /\ errors' = [q \in DOMAIN errors |-> errors[q] \o out.errors]
          /\ response' = [response EXCEPT ![r] = out.headers]
          /\ ret' = [ret EXCEPT ![r] = out.ret]
          /\ pc' = [pc EXCEPT ![r] = AfterView(errors'[r], skip_view_on_errors)]
    /\ ran' = [ran EXCEPT ![r] = @ \cup {"preflight"}]
    /\ UNCHANGED <<config, applied>>

\* the preflight view of cors.py answers an OPTIONS request
PreflightView(r) ==
    /\ pc[r] = "view"
    /\ request[r].method = OPTIONS
    /\ LET out == _preflight_view(service, request[r], errors[r], response[r])
       IN /\ errors' = [errors EXCEPT ![r] = out.errors]
          /\ response' = [response EXCEPT ![r] = out.headers]
          /\ ret' = [ret EXCEPT ![r] = out.ret]
          /\ pc' = [pc EXCEPT ![r] = AfterView(out.errors, skip_view_on_errors)]
    /\ ran' = [ran EXCEPT ![r] = @ \cup {"preflight"}]
    /\ UNCHANGED <<config, applied>>

\* the OPTIONS view of pyramidhook.py answers an OPTIONS request
OptionsView(r) ==
    /\ pc[r] = "view"
    /\ request[r].method = OPTIONS
    /\ LET out == _options_view(service, request[r], errors[r], response[r],
                                windows)
       IN /\ errors' = [errors EXCEPT ![r] = out.errors]
          /\ response' = [response EXCEPT ![r] = out.headers]
          /\ ret' = [ret EXCEPT ![r] = out.ret]
          /\ pc' = [pc EXCEPT ![r] = AfterView(out.errors, skip_view_on_errors)]
    /\ ran' = [ran EXCEPT ![r] = @ \cup {"options"}]
    /\ UNCHANGED <<config, applied>>

\* the response headers after the endpoint's own view
endpoint_view(request_, response_headers) ==
    IF request_.app_credentials # None
    THEN HeadersSet(response_headers, "Access-Control-Allow-Credentials",
                    request_.app_credentials)
    ELSE response_headers

\* the endpoint's own view answers a request of another verb
EndpointView(r) ==
    /\ pc[r] = "view"
    /\ request[r].method # OPTIONS
    /\ response' = [response EXCEPT ![r] = endpoint_view(request[r], @)]
    /\ pc' = [pc EXCEPT ![r] = AfterView(errors[r], skip_view_on_errors)]
    /\ ran' = [ran EXCEPT ![r] = @ \cup {"endpoint"}]
    /\ UNCHANGED <<config, errors, ret, applied>>

\* the CORS filter runs on the response, once per entry of the filter list
CorsFilter(r) ==
    /\ pc[r] = "filters"
    /\ response' = [response EXCEPT
                        ![r] = _cors_filter(service, @, request[r])]
    /\ applied' = [applied EXCEPT ![r] = @ + 1]
    /\ pc' = [pc EXCEPT ![r] = AfterFilter(applied[r] + 1, filters)]
    /\ ran' = [ran EXCEPT ![r] = @ \cup {"filter"}]
    /\ UNCHANGED <<config, errors, ret>>

(***************************************************************************)
(* Spec: one request through validator, view (the preflight view of        *)
(* cors.py for OPTIONS) and filter.                                        *)
(***************************************************************************)
Init ==
    /\ windows = FALSE
    /\ InitRequests(1, Services, FALSE, FALSE)

Next ==
    \/ \E r \in DOMAIN request : CorsValidator(r)
    \/ \E r \in DOMAIN request : PreflightView(r)
    \/ \E r \in DOMAIN request : EndpointView(r)
    \/ \E r \in DOMAIN request : CorsFilter(r)

Spec == Init /\ [][Next]_vars

(***************************************************************************)
(* SpecConc: several requests to the same endpoint, their steps            *)
(* interleaved.                                                            *)
(***************************************************************************)
InitConc ==
    /\ windows = FALSE
    /\ InitRequests(NumConcurrent, ConcServices, TRUE, FALSE)

SpecConc == InitConc /\ [][Next]_vars

(***************************************************************************)
(* SpecHook: the registration of pyramidhook.py, where an OPTIONS request  *)
(* goes straight to the OPTIONS view of pyramidhook.py and every other     *)
(* request through validator, view and filter.                             *)
(***************************************************************************)
InitHook ==
    /\ windows \in BOOLEAN
    /\ InitRequests(1, Services, FALSE, TRUE)

NextHook ==
    \/ \E r \in DOMAIN request : CorsValidator(r)
    \/ \E r \in DOMAIN request : OptionsView(r)
    \/ \E r \in DOMAIN request : EndpointView(r)
    \/ \E r \in DOMAIN request : CorsFilter(r)

SpecHook == InitHook /\ [][NextHook]_vars

(***************************************************************************)
(* Vocabulary of the properties.                                           *)
(***************************************************************************)
Ids == DOMAIN request

Sent(r, key) == key \in DOMAIN request[r].headers

OriginOf(r) == HeadersGet(request[r].headers, "Origin", None)

RequestedMethodOf(r) ==
    HeadersGet(request[r].headers, "Access-Control-Request-Method", None)

\* the whitespace-separated tokens of Access-Control-Request-Headers
RequestedHeadersOf(r) ==
    IF Sent(r, "Access-Control-Request-Headers")
    THEN Split(request[r].headers["Access-Control-Request-Headers"])
    ELSE <<>>

IsOptions(r) == request[r].method = OPTIONS

\* Access-Control-Request-Method of an OPTIONS request that has it, the verb
\* otherwise
EffectiveMethod(r) ==
    IF IsOptions(r) /\ Sent(r, "Access-Control-Request-Method")
    THEN request[r].headers["Access-Control-Request-Method"]
    ELSE request[r].method

\* the patterns configured for a method
PatternsOf(m) == IF m \in Range(service.methods) THEN service.origins[m] ELSE <<>>

\* the origin glob-matches a pattern configured for the method
Matches(origin, m) ==
    \E i \in DOMAIN PatternsOf(m) : fnmatchcase(origin, PatternsOf(m)[i])

MissingHeader(name) ==
    [location |-> "header", name |-> name, description |-> Mandatory]

OriginNotAllowed(origin) ==
    [location |-> "header", name |-> "Origin",
     description |-> <<origin, " not allowed">>]

MethodNotAllowed ==
    [location |-> "header", name |-> "Access-Control-Request-Method",
     description |-> <<"Method not allowed">>]

HeaderNotAllowed(h) ==
    [location |-> "header", name |-> "Access-Control-Request-Headers",
     description |-> <<"Header \"", h, "\" not allowed">>]

\* the response headers only the preflight view sets
PreflightHeaderNames ==
    {"Access-Control-Allow-Headers", "Access-Control-Allow-Methods",
     "Access-Control-Max-Age"}

Absent(r, key) == ~Sent(r, key)

AbsentOrEmpty(r, key) == ~Truthy(HeadersGet(request[r].headers, key, None))

\* one MissingHeader error per mandatory header the request lacks, where an
\* empty value counts as lacking iff empty_lacks
MissingErrors(r, empty_lacks) ==
    LET Lacks(k) == IF empty_lacks THEN AbsentOrEmpty(r, k) ELSE Absent(r, k)
    IN  (IF Lacks("Origin") THEN <<MissingHeader("Origin")>> ELSE <<>>)
        \o (IF Lacks("Access-Control-Request-Method")
            THEN <<MissingHeader("Access-Control-Request-Method")>>
            ELSE <<>>)

C2_Applies(r) ==
    /\ Truthy(OriginOf(r))
    /\ IsOptions(r) =>
          /\ RequestedMethodOf(r) \in service.enabled
          /\ \A i \in DOMAIN RequestedHeadersOf(r) :
                 \E m \in service.enabled :
                     RequestedHeadersOf(r)[i] \in Range(service.headers[m])
    /\ ~Matches(OriginOf(r), EffectiveMethod(r))

SupportedHeaderSet == UNION {Range(service.headers[m]) : m \in service.enabled}

C4_Expected(r) ==
    LET Offending(h) == h \notin SupportedHeaderSet
        bad == SelectSeq(RequestedHeadersOf(r), Offending)
    IN (IF RequestedMethodOf(r) \notin service.enabled
        THEN <<MethodNotAllowed>> ELSE <<>>)
       \o [i \in 1..Len(bad) |-> HeaderNotAllowed(bad[i])]

\* the step in which the OPTIONS view answers request r
ViewAnswersOptions(r) == pc[r] = "view" /\ pc'[r] # "view" /\ IsOptions(r)

C4_AllFailuresRecorded ==
    [][\A r \in Ids :
          (/\ ViewAnswersOptions(r)
           /\ Truthy(OriginOf(r)) /\ Truthy(RequestedMethodOf(r)))
          => errors'[r] = errors[r] \o C4_Expected(r)]_vars

\* C4: a failed method check followed by three header errors, one header
\* named twice
C4_Witness ==
    \E r \in Ids :
        /\ "preflight" \in ran[r]
        /\ Truthy(OriginOf(r)) /\ Truthy(RequestedMethodOf(r))
        /\ Len(C4_Expected(r)) = 4
        /\ C4_Expected(r)[1] = MethodNotAllowed
        /\ C4_Expected(r)[2] = C4_Expected(r)[4]
        /\ Len(errors[r]) >= 4
        /\ SubSeq(errors[r], Len(errors[r]) - 3, Len(errors[r])) = C4_Expected(r)

(***************************************************************************)
(* C5: whenever Origin and Access-Control-Request-Method are both present  *)
(* (sent with a non-empty value), the preflight view, whatever errors it   *)
(* records, sets Access-Control-Allow-Headers to the supported headers     *)
(* joined with ', ' and Access-Control-Allow-Methods to the supported      *)
(* methods joined with ',' and returns 'ok'; the methods advertised are    *)
(* exactly the CORS-enabled ones, and no header declared only on a         *)
(* CORS-disabled method is advertised.                                     *)
(***************************************************************************)
\* s.split(c)
RECURSIVE SplitOn(_, _, _)
SplitOn(s, c, word) ==
    IF s = <<>> THEN <<word>>
    ELSE IF s[1] = c THEN <<word>> \o SplitOn(Tail(s), c, <<>>)
    ELSE SplitOn(Tail(s), c, Append(word, s[1]))

\* the items of a comma-separated list, without the space after a comma
ListItems(s) ==
    {IF w # <<>> /\ w[1] = " " THEN Tail(w) ELSE w :
        w \in Range(SplitOn(s, ",", <<>>))}

C5_Answer(r) ==
    /\ {"Access-Control-Allow-Headers", "Access-Control-Allow-Methods"}
           \subseteq DOMAIN response[r]
    /\ response[r]["Access-Control-Allow-Headers"]
           = Join(cors_supported_headers(service), <<",", " ">>)
    /\ response[r]["Access-Control-Allow-Methods"]
           = Join(cors_supported_methods(service), <<",">>)
    /\ ret[r] = Ok
    /\ \A m \in Range(service.methods) :
           m \in ListItems(response[r]["Access-Control-Allow-Methods"])
               <=> m \in service.enabled
    /\ \A m \in Range(service.methods) \ service.enabled :
           \A h \in Range(service.headers[m]) \ SupportedHeaderSet :
               h \notin ListItems(response[r]["Access-Control-Allow-Headers"])

C5_HeadersWhateverErrors ==
    \A r \in Ids :
        (/\ "preflight" \in ran[r]
         /\ Truthy(OriginOf(r)) /\ Truthy(RequestedMethodOf(r)))
        => C5_Answer(r)

\* C5: the view answered 'ok' with both lists after recording a method error
\* and a header error, for a service with a CORS-disabled method
C5_Witness ==
    \E r \in Ids :
        /\ "preflight" \in ran[r]
        /\ ret[r] = Ok
        /\ MethodNotAllowed \in Range(errors[r])
        /\ \E h \in {Xn} : HeaderNotAllowed(h) \in Range(errors[r])
        /\ service.headers[POST] = <<Xn>>
        /\ response[r]["Access-Control-Allow-Methods"]
               = GET \o <<",">> \o PUT

(***************************************************************************)
(* C6: the response filter is idempotent and never overwrites a            *)
(* credentials header: an application after the first changes nothing, a   *)
(* credentials header already on the response keeps its value, and the     *)
(* filter adds the header, as 'true', only when the service supports       *)
(* credentials for the effective method.                                   *)
(***************************************************************************)
FilterApplies(r) == pc[r] = "filters" /\ applied'[r] = applied[r] + 1

SupportsCredentials(m) ==
    m \in Range(service.methods) /\ service.credentials[m]

C6_FilterIdempotent ==
    [][\A r \in Ids :
          FilterApplies(r)
          => LET acac == "Access-Control-Allow-Credentials"
             IN /\ applied[r] >= 1 => response'[r] = response[r]
                /\ acac \in DOMAIN response[r]
                      => response'[r][acac] = response[r][acac]
                /\ (acac \notin DOMAIN response[r] /\ acac \in DOMAIN response'[r])
                      => /\ response'[r][acac] = <<"t", "r", "u", "e">>
                         /\ SupportsCredentials(EffectiveMethod(r))]_vars

\* C6: the filter ran twice on a response whose endpoint had set the
\* credentials header to 'false', for a method that supports credentials
C6_Witness ==
    \E r \in Ids :
        /\ applied[r] = 2
        /\ SupportsCredentials(EffectiveMethod(r))
        /\ "Access-Control-Allow-Credentials" \in DOMAIN response[r]
        /\ response[r]["Access-Control-Allow-Credentials"]
               = <<"f", "a", "l", "s", "e">>
        /\ "Access-Control-Expose-Headers" \in DOMAIN response[r]

(***************************************************************************)
(* C7, as stated: the validator, the preflight view and the filter return  *)
(* normally for every request and every policy; none of them raises.       *)
(***************************************************************************)
C7_NeverRaises == \A r \in Ids : pc[r] # "raised"

(***************************************************************************)
(* C8, as stated: once the filter has run, the response carries            *)
(* Access-Control-Expose-Headers (the supported headers joined with ', ')  *)
(* if and only if the verb is not OPTIONS and there is a supported header. *)
(***************************************************************************)
C8_AsClaimed ==
    \A r \in Ids :
        "filter" \in ran[r]
        => LET aceh == "Access-Control-Expose-Headers"
           IN /\ aceh \in DOMAIN response[r]
                    <=> (~IsOptions(r) /\ SupportedHeaderSet # {})
              /\ aceh \in DOMAIN response[r]
                    => response[r][aceh]
                           = Join(cors_supported_headers(service), <<",", " ">>)

(***************************************************************************)
(* C9, as stated: the origin is authorized per effective method, on the    *)
(* preflight path as on the other: wherever the origin check has run on a  *)
(* request with a non-empty Origin, Access-Control-Allow-Origin is set if  *)
(* and only if the origin matches a pattern configured for the effective   *)
(* method, and an "Origin ... not allowed" error is recorded otherwise.    *)
(***************************************************************************)
OriginChecked(r) ==
    /\ Truthy(OriginOf(r))
    /\ pc[r] # "raised"
    /\ \/ "validator" \in ran[r]
       \/ "options" \in ran[r] /\ ret[r] = Ok

OriginRejected(r) ==
    \E i \in DOMAIN errors[r] :
        /\ errors[r][i].name = "Origin"
        /\ errors[r][i].description = <<OriginOf(r), " not allowed">>

C9_AsClaimed ==
    \A r \in Ids :
        /\ "Access-Control-Allow-Origin" \in DOMAIN response[r]
              => Matches(OriginOf(r), EffectiveMethod(r))
        /\ OriginChecked(r)
              => /\ "Access-Control-Allow-Origin" \in DOMAIN response[r]
                        <=> Matches(OriginOf(r), EffectiveMethod(r))
                 /\ OriginRejected(r)
                        <=> ~Matches(OriginOf(r), EffectiveMethod(r))

(***************************************************************************)
(* C10: requests are isolated under every interleaving: no step modifies   *)
(* the service, a step changes the errors and the response of one request  *)
(* only, and each request ends with the errors and the response headers it *)
(* gets when processed alone.                                              *)
(***************************************************************************)
RECURSIVE FilterTimes(_, _, _, _)
FilterTimes(svc, headers, req, n) ==
    IF n = 0 THEN headers
    ELSE FilterTimes(svc, _cors_filter(svc, headers, req), req, n - 1)

\* the outcome of the processing of one request on its own
Alone(svc, skip, n, req) ==
    LET v == _cors_validator(svc, req, <<>>, <<>>)
        s1 == AfterValidators(v.raised, v.errors, skip)
        w == IF req.method = OPTIONS
             THEN _preflight_view(svc, req, v.errors, v.headers)
             ELSE [errors |-> v.errors, headers |-> endpoint_view(req, v.headers)]
        s2 == AfterView(w.errors, skip)
    IN IF s1 # "view"
       THEN [errors |-> v.errors, headers |-> v.headers, pc |-> s1]
       ELSE IF s2 # "filters"
       THEN [errors |-> w.errors, headers |-> w.headers, pc |-> s2]
       ELSE [errors |-> w.errors,
             headers |-> FilterTimes(svc, w.headers, req, n), pc |-> "done"]

C10_Isolation ==
    [][/\ service' = service
       /\ \E r \in Ids :
              \A q \in Ids \ {r} :
                  errors'[q] = errors[q] /\ response'[q] = response[q]
       /\ \A r \in Ids :
              pc'[r] \in Terminal
              => LET alone == Alone(service, skip_view_on_errors, filters,
                                    request[r])
                 IN /\ errors'[r] = alone.errors
                    /\ response'[r] = alone.headers
                    /\ pc'[r] = alone.pc]_vars

\* C10: two requests are over, one rejected with errors and no header, the
\* other answered with headers and no error
C10_Witness ==
    \E r, q \in Ids :
        /\ r # q
        /\ pc[r] \in Terminal /\ pc[q] \in Terminal
        /\ Len(errors[r]) >= 2 /\ "Access-Control-Allow-Origin" \notin DOMAIN response[r]
        /\ errors[q] = <<>> /\ "Access-Control-Allow-Origin" \in DOMAIN response[q]
====
